---- MODULE Spec2Model ----
(***************************************************************************)
(* A model of the jval validator combinators (package jval).               *)
(*                                                                         *)
(* Validate is modelled as the code computes it: every validator returns a *)
(* list of Error records whose Field is a Go slice (a backing array, a     *)
(* length), built with append, so that the sharing of backing arrays       *)
(* between the paths of sibling branches is part of the model.  A call     *)
(* that ends in a Go runtime panic is an outcome of its own (ok = FALSE).  *)
(* The order in which Go enumerates a map is an input of every run.        *)
(***************************************************************************)
EXTENDS Integers, Sequences, FiniteSets, TLC

VARIABLES p, v, root, pc, res, res2, run, marks, walk, call, heap, procs, stack

vars == <<p, v, root, pc, res, res2, run, marks, walk, call, heap, procs, stack>>

-----------------------------------------------------------------------------
(* Bounds of the model *)

\* number of distinct object keys in values and schemas
NumKeys == 2
\* longest array value
MaxArr == 2
\* largest spare capacity (cap - len) of the root path handed to Validate
MaxSpare == 1
\* deepest nesting of a list inside lists
MaxDepth == 3
\* largest identifier the generator of describe returns (the smallest is 0)
MaxId == 2
\* a describe call enters no recursive node once it has emitted this many nodes
MaxWalk == 10
\* most children handed to And and Or, largest argument of a range constructor
MaxChildren == 2
MaxRange == 2
\* most positions of a Tuple
MaxTuple == 3
\* most Validate calls in progress at once
MaxNest == 12

KeyPool == <<"a", "b", "c", "d">>
Keys == {KeyPool[i] : i \in 1..NumKeys}

Min(S) == CHOOSE x \in S : \A y \in S : x <= y
Max(S) == CHOOSE x \in S : \A y \in S : x >= y
RECURSIVE Sum(_)
Sum(ns) == IF ns = <<>> THEN 0 ELSE Head(ns) + Sum(Tail(ns))

\* strconv.Itoa on the indices the model reaches
Itoa(i) == <<"0", "1", "2", "3", "4", "5", "6", "7", "8", "9">>[i + 1]

RECURSIVE Concat(_)
Concat(ss) == IF ss = <<>> THEN <<>> ELSE Head(ss) \o Concat(Tail(ss))

\* the subsequence of s whose elements satisfy membership in S, order kept
RECURSIVE Restrict(_, _)
Restrict(s, S) ==
  IF s = <<>> THEN <<>>
  ELSE IF Head(s) \in S THEN <<Head(s)>> \o Restrict(Tail(s), S)
       ELSE Restrict(Tail(s), S)

Range(s) == {s[i] : i \in 1..Len(s)}

IndexOf(s, x) == Min({i \in 1..Len(s) : s[i] = x})

\* all orders in which a map over Keys can be enumerated
Perms == {s \in [1..NumKeys -> Keys] : \A i, j \in 1..NumKeys : s[i] = s[j] => i = j}

-----------------------------------------------------------------------------
(* The value tree, in the representation of the interface{} revision of  *)
(* the package (the values encoding/json decodes into): a JSON null is the *)
(* Go nil, the one value v == nil is true of.  One record shape for every  *)
(* kind:                                                                   *)
(*   k  kind, s  the code points of a string, n  a number in halves,       *)
(*   ks the keys of a mapping (sorted), e  the elements of a sequence or   *)
(*   the values of a mapping, in the order of ks.                          *)

Str(s)  == [k |-> "string", s |-> s, n |-> 0, ks |-> <<>>, e |-> <<>>]
Num(n)  == [k |-> "number", s |-> <<>>, n |-> 2 * n, ks |-> <<>>, e |-> <<>>]
\* the number n + 1/2
HalfPast(n) == [k |-> "number", s |-> <<>>, n |-> 2 * n + 1, ks |-> <<>>, e |-> <<>>]
Bool    == [k |-> "boolean", s |-> <<>>, n |-> 0, ks |-> <<>>, e |-> <<>>]
JNull   == [k |-> "null", s |-> <<>>, n |-> 0, ks |-> <<>>, e |-> <<>>]
Arr(e)  == [k |-> "array", s |-> <<>>, n |-> 0, ks |-> <<>>, e |-> e]
Obj(ks, e) == [k |-> "object", s |-> <<>>, n |-> 0, ks |-> ks, e |-> e]

IsString(u)  == u.k = "string"
IsNumber(u)  == u.k = "number"
IsBoolean(u) == u.k = "boolean"
IsNull(u)    == u.k = "null"
IsObject(u)  == u.k = "object"
IsArray(u)   == u.k = "array"

\* u, x := o[k]: whether the key is there, and its value
HasKey(u, k) == k \in Range(u.ks)
ObjectKey(u, k) == u.e[IndexOf(u.ks, k)]

-----------------------------------------------------------------------------
(* Go slices of path segments.  The heap is a sequence of backing arrays,  *)
(* each with its capacity and the cells written so far; a slice names a    *)
(* backing array (0: none) and a length.                                   *)

NilSlice == [a |-> 0, n |-> 0]

Cap(H, f) == IF f.a = 0 THEN 0 ELSE H[f.a].cap

\* the segments a slice denotes under heap H
Segs(H, f) == IF f.n = 0 THEN <<>> ELSE SubSeq(H[f.a].data, 1, f.n)

\* append(f, k): in place when the capacity allows, else a grown copy
GoAppend(H, f, k) ==
  IF f.n < Cap(H, f)
  THEN LET d == H[f.a].data
           d2 == IF f.n < Len(d) THEN [d EXCEPT ![f.n + 1] = k] ELSE Append(d, k)
       IN [H |-> [H EXCEPT ![f.a].data = d2], f |-> [a |-> f.a, n |-> f.n + 1]]
  ELSE LET c == IF Cap(H, f) = 0 THEN 1 ELSE 2 * Cap(H, f)
           arr == [cap |-> c, data |-> Append(Segs(H, f), k)]
       IN [H |-> Append(H, arr), f |-> [a |-> Len(H) + 1, n |-> f.n + 1]]

-----------------------------------------------------------------------------
(* Error records.  Context is the Go interface value: its dynamic type ty, *)
(* its printed scalar content sv, and, for an aggregate, its []Error es.   *)

CNil          == [ty |-> "nil", sv |-> <<>>, es |-> <<>>]
CString(s)    == [ty |-> "string", sv |-> <<s>>, es |-> <<>>]
CInt(n)       == [ty |-> "int", sv |-> <<Itoa(n)>>, es |-> <<>>]
CMapInt(x, y) == [ty |-> "map[string]int", sv |-> <<"min", Itoa(x), "max", Itoa(y)>>, es |-> <<>>]
CMapFloat(x, y) == [ty |-> "map[string]float64", sv |-> <<"min", Itoa(x), "max", Itoa(y)>>, es |-> <<>>]
CErrors(es)   == [ty |-> "[]Error", sv |-> <<>>, es |-> es]

\* the dynamic types Go cannot compare with ==
Uncomparable == {"map[string]int", "map[string]float64", "map[string]interface{}", "[]Error"}

Error(label, field, context) == [Label |-> label, Field |-> field, Context |-> context]

NoErrors == <<>>

\* what a call hands back: ok = FALSE when it ended in a runtime panic
Return(es, H) == [ok |-> TRUE, es |-> es, H |-> H]
Panic(H)      == [ok |-> FALSE, es |-> <<>>, H |-> H]

\* e.Context == o.Context on interface values
ContextEq(c, d) ==
  IF c.ty # d.ty THEN "false"
  ELSE IF c.ty \in Uncomparable THEN "panic"
  ELSE IF c.sv = d.sv THEN "true" ELSE "false"

\* Error.Equals, evaluated when the heap is H: "true", "false" or "panic"
Equals(e, o, H) ==
  IF e.Field.n # o.Field.n THEN "false"
  ELSE IF e.Label # o.Label THEN "false"
  ELSE IF \E i \in 1..e.Field.n : Segs(H, e.Field)[i] # Segs(H, o.Field)[i] THEN "false"
  ELSE ContextEq(e.Context, o.Context)

RECURSIVE uniqueLoop(_, _, _, _)
uniqueLoop(es, i, uq, H) ==
  IF i > Len(es) THEN Return(uq, H)
  ELSE LET e == es[i]
           hit == {j \in 1..Len(uq) : Equals(e, uq[j], H) # "false"}
       IN IF hit = {} THEN uniqueLoop(es, i + 1, Append(uq, e), H)
          ELSE IF Equals(e, uq[Min(hit)], H) = "panic" THEN Panic(H)
          ELSE uniqueLoop(es, i + 1, uq, H)

uniqueErrors(es, H) == uniqueLoop(es, 1, <<>>, H)

\* the inner lists of the aggregates tagged tag spliced in place
Splice(es, tag) ==
  Concat([i \in 1..Len(es) |->
            IF es[i].Label = tag THEN es[i].Context.es ELSE <<es[i]>>])

-----------------------------------------------------------------------------
(* Validators.  One record shape for every variant:                        *)
(*   t the variant, cs the children, ks the keys of an object schema (the  *)
(*   child of ks[i] is cs[i]), x and y the bounds of a range.              *)

Node(t, cs, ks, x, y) == [t |-> t, cs |-> cs, ks |-> ks, x |-> x, y |-> y]

Anything   == Node("anything", <<>>, <<>>, 0, 0)
String     == Node("string", <<>>, <<>>, 0, 0)
Number     == Node("number", <<>>, <<>>, 0, 0)
Boolean    == Node("boolean", <<>>, <<>>, 0, 0)
Null       == Node("null", <<>>, <<>>, 0, 0)
\* what a constructor that panics leaves the caller with: no validator
Aborted    == Node("panic", <<>>, <<>>, 0, 0)
And(cs)    == IF Len(cs) = 0 THEN Aborted
              ELSE IF Len(cs) = 1 THEN cs[1] ELSE Node("and", cs, <<>>, 0, 0)
Or(cs)     == IF Len(cs) = 0 THEN Aborted
              ELSE IF Len(cs) = 1 THEN cs[1] ELSE Node("or", cs, <<>>, 0, 0)
Object(ks, cs) == Node("object", cs, ks, 0, 0)
\* Case(d): the discriminators ks and the validator of each
Case(ks, cs) == Node("case", cs, ks, 0, 0)
Map(e)     == Node("map", <<e>>, <<>>, 0, 0)
Array(e)   == Node("array", <<e>>, <<>>, 0, 0)
Optional(e) == Node("optional", <<e>>, <<>>, 0, 0)
LengthBetween(x, y) ==
  IF y < x THEN Aborted ELSE Node("lengthBetween", <<>>, <<>>, x, y)
Length(x)  == LengthBetween(x, x)
NumberBetween(x, y) ==
  IF y < x THEN Aborted ELSE Node("numberBetween", <<>>, <<>>, x, y)
WholeNumber == Node("wholeNumber", <<>>, <<>>, 0, 0)
\* a constructor without the test of its arguments
WholeNumberBetweenUnchecked(x, y) == Node("wholeNumberBetween", <<>>, <<>>, x, y)
WholeNumberBetween(x, y) ==
  IF y < x THEN Aborted ELSE Node("wholeNumberBetween", <<>>, <<>>, x, y)
\* the Lambdas that the Validate of the number validators builds
NumberLambda(x, y) == Node("numberLambda", <<>>, <<>>, x, y)
WholeLambda == Node("wholeLambda", <<>>, <<>>, 0, 0)
\* the Lambda that LengthBetweenValidator.Validate builds
LengthLambda(x, y) == Node("lengthLambda", <<>>, <<>>, x, y)

\* Recursion(f): the node a := &RecursiveValidator{} , named by x, and the
\* body f(a) that a.Define binds to it
Handle(x) == Node("recursive", <<>>, <<>>, x, 0)
ListOfLists == 1
ListOfBoth == 2
\* Recursion(r -> Or(String, r)) and Recursion(r -> And(r, String))
OrSelf == 3
AndSelf == 4
Defined(x) == CASE x = ListOfLists -> Array(Or(<<String, Handle(ListOfLists)>>))
                [] x = ListOfBoth  -> Array(Or(<<Handle(ListOfLists), Handle(ListOfBoth)>>))
                [] x = OrSelf      -> Or(<<String, Handle(OrSelf)>>)
                [] x = AndSelf     -> And(<<Handle(AndSelf), String>>)
RecursiveNodes == {ListOfLists, ListOfBoth, OrSelf, AndSelf}
Recursion(x) == Handle(x)

Child(q, k) == q.cs[IndexOf(q.ks, k)]

TypeValidate(is, label, f, H) ==
  IF is THEN Return(NoErrors, H) ELSE Return(<<Error(label, f, CNil)>>, H)

\* the number of bytes of the UTF-8 encoding of a code point, of a string
Utf8Len(c) == IF c = "U+00E9" THEN 2 ELSE 1
RECURSIVE ByteLen(_)
ByteLen(s) == IF s = <<>> THEN 0 ELSE Utf8Len(Head(s)) + ByteLen(Tail(s))

\* l := -1, then len(t) of a string (its bytes) or of a sequence
MeasuredLength(u) == IF IsString(u) THEN ByteLen(u.s)
                     ELSE IF IsArray(u) THEN Len(u.e) ELSE 0 - 1

LengthLambdaValidate(q, u, f, H) ==
  LET l == MeasuredLength(u)
  IN IF l < q.x \/ l > q.y
     THEN IF q.x = q.y
          THEN Return(<<Error("value_must_have_length", f, CInt(q.x))>>, H)
          ELSE Return(<<Error("value_must_have_length_between", f, CMapInt(q.x, q.y))>>, H)
     ELSE Return(NoErrors, H)

\* l := v.(float64), which panics on a value that is not a number
NumberLambdaValidate(q, u, f, H) ==
  IF ~IsNumber(u) THEN Panic(H)
  ELSE IF u.n < 2 * q.x \/ u.n > 2 * q.y
       THEN Return(<<Error("value_must_have_value_between", f, CMapFloat(q.x, q.y))>>, H)
       ELSE Return(NoErrors, H)

\* n := v.(float64); _, r := math.Modf(n)
WholeLambdaValidate(u, f, H) ==
  IF ~IsNumber(u) THEN Panic(H)
  ELSE IF u.n % 2 # 0
       THEN Return(<<Error("value_must_be_whole_number", f, CNil)>>, H)
       ELSE Return(NoErrors, H)

RECURSIVE Validate(_, _, _, _, _)
RECURSIVE AndLoop(_, _, _, _, _, _, _)
RECURSIVE OrLoop(_, _, _, _, _, _, _)
RECURSIVE DescendLoop(_, _, _, _, _, _)

\* a loop that keeps the aggregate of a child as one violation
RECURSIVE AndLoopNoSplice(_, _, _, _, _, _, _)
AndLoopNoSplice(cs, i, ae, u, f, H, o) ==
  IF i > Len(cs) THEN Return(ae, H)
  ELSE LET r == Validate(cs[i], u, f, H, o)
       IN IF ~r.ok THEN r
          ELSE AndLoopNoSplice(cs, i + 1, ae \o r.es, u, f, r.H, o)

\* the loop of AndValidator.Validate: every child, aggregates spliced
AndLoop(cs, i, ae, u, f, H, o) ==
  IF i > Len(cs) THEN Return(ae, H)
  ELSE LET r == Validate(cs[i], u, f, H, o)
       IN IF ~r.ok THEN r
          ELSE AndLoop(cs, i + 1, ae \o Splice(r.es, "and"), u, f, r.H, o)

\* an ending that wraps a single violation too
CollapseAlwaysWrap(c, tag) ==
  IF ~c.ok THEN c
  ELSE IF Len(c.es) = 0 THEN Return(NoErrors, c.H)
  ELSE LET ue == uniqueErrors(c.es, c.H)
       IN IF ~ue.ok THEN ue
          ELSE Return(<<Error(tag, NilSlice, CErrors(ue.es))>>, c.H)

\* the end of And and Or: success, the one violation, or the aggregate
Collapse(c, tag) ==
  IF ~c.ok THEN c
  ELSE IF Len(c.es) = 0 THEN Return(NoErrors, c.H)
  ELSE LET ue == uniqueErrors(c.es, c.H)
       IN IF ~ue.ok THEN ue
          ELSE IF Len(ue.es) = 1 THEN ue
          ELSE Return(<<Error(tag, NilSlice, CErrors(ue.es))>>, c.H)

AndValidate(q, u, f, H, o) == Collapse(AndLoop(q.cs, 1, <<>>, u, f, H, o), "and")

\* an Or that evaluates every child and keeps what the failing ones return
OrValidateCollectAll(q, u, f, H, o) == Collapse(AndLoop(q.cs, 1, <<>>, u, f, H, o), "or")

\* the loop of OrValidator.Validate: success at the first child that succeeds
OrLoop(cs, i, ae, u, f, H, o) ==
  IF i > Len(cs) THEN Return(ae, H)
  ELSE LET r == Validate(cs[i], u, f, H, o)
       IN IF ~r.ok THEN r
          ELSE IF Len(r.es) = 0 THEN Return(NoErrors, r.H)
          ELSE OrLoop(cs, i + 1, ae \o Splice(r.es, "or"), u, f, r.H, o)

OrValidate(q, u, f, H, o) == Collapse(OrLoop(q.cs, 1, <<>>, u, f, H, o), "or")

\* the loops of Object, Map and Array over their sub-values; a task is a
\* declared key missing from the value, or a sub-value to descend into with
\* path append(f, seg)
Missing(k) == [missing |-> TRUE, q |-> Anything, u |-> JNull, seg |-> k]
Descend(q, u, seg) == [missing |-> FALSE, q |-> q, u |-> u, seg |-> seg]

DescendLoop(ts, i, ae, f, H, o) ==
  IF i > Len(ts) THEN Return(ae, H)
  ELSE IF ts[i].missing
       THEN DescendLoop(ts, i + 1, Append(ae, Error("missing_object_key", f, CString(ts[i].seg))), f, H, o)
       ELSE LET a == GoAppend(H, f, ts[i].seg)
                r == Validate(ts[i].q, ts[i].u, a.f, a.H, o)
            IN IF ~r.ok THEN r
               ELSE DescendLoop(ts, i + 1, ae \o r.es, f, r.H, o)

\* the keys of the value in the order ObjectForEach visits them
ValueKeys(u, o) == Restrict(o.v, Range(u.ks))
\* the keys of the schema in the order range visits the map
SchemaKeys(q, o) == Restrict(o.d, Range(q.ks))

\* a report of the first undeclared key only
UnexpectedKeysFirstOnly(q, u, f, o) ==
  LET ks == Restrict(ValueKeys(u, o), Range(u.ks) \ Range(q.ks))
  IN [i \in 1..(IF Len(ks) = 0 THEN 0 ELSE 1) |-> Error("unexpected_object_key", f, CString(ks[i]))]

UnexpectedKeys(q, u, f, o) ==
  LET ks == Restrict(ValueKeys(u, o), Range(u.ks) \ Range(q.ks))
  IN [i \in 1..Len(ks) |-> Error("unexpected_object_key", f, CString(ks[i]))]

\* tasks that pass over the declared keys the value does not have
ObjectTasksSkipMissing(q, u, o) ==
  LET ks == Restrict(SchemaKeys(q, o), Range(u.ks))
  IN [i \in 1..Len(ks) |-> Descend(Child(q, ks[i]), ObjectKey(u, ks[i]), ks[i])]

\* tasks that hand a missing key's nil value to the key's validator
ObjectTasksNilForMissing(q, u, o) ==
  LET ks == SchemaKeys(q, o)
  IN [i \in 1..Len(ks) |->
        Descend(Child(q, ks[i]),
                IF HasKey(u, ks[i]) THEN ObjectKey(u, ks[i]) ELSE JNull, ks[i])]

ObjectTasks(q, u, o) ==
  LET ks == SchemaKeys(q, o)
  IN [i \in 1..Len(ks) |->
        IF HasKey(u, ks[i]) THEN Descend(Child(q, ks[i]), ObjectKey(u, ks[i]), ks[i])
        ELSE Missing(ks[i])]

ObjectValidate(q, u, f, H, o) ==
  IF ~IsObject(u) THEN Return(<<Error("value_must_be_object", f, CNil)>>, H)
  ELSE DescendLoop(ObjectTasks(q, u, o), 1, UnexpectedKeys(q, u, f, o), f, H, o)

\* a Case that takes the first key of a mapping of several keys
CaseValidateAnyCount(q, u, f, H, o) ==
  IF ~IsObject(u) THEN Return(<<Error("value_must_be_object", f, CNil)>>, H)
  ELSE IF Len(u.ks) = 0 THEN Return(<<Error("object_must_have_exactly_one_key", f, CNil)>>, H)
  ELSE LET c == u.ks[1]
       IN IF ~HasKey(q, c) THEN Return(<<Error("case_not_defined", f, CString(c))>>, H)
          ELSE LET a == GoAppend(H, f, c)
               IN Validate(Child(q, c), ObjectKey(u, c), a.f, a.H, o)

CaseValidate(q, u, f, H, o) ==
  IF ~IsObject(u) THEN Return(<<Error("value_must_be_object", f, CNil)>>, H)
  ELSE IF Len(u.ks) # 1 THEN Return(<<Error("object_must_have_exactly_one_key", f, CNil)>>, H)
  ELSE LET c == u.ks[1]
       IN IF ~HasKey(q, c) THEN Return(<<Error("case_not_defined", f, CString(c))>>, H)
          ELSE LET a == GoAppend(H, f, c)
               IN Validate(Child(q, c), ObjectKey(u, c), a.f, a.H, o)

MapTasks(q, u, o) ==
  LET ks == ValueKeys(u, o)
  IN [i \in 1..Len(ks) |-> Descend(q.cs[1], ObjectKey(u, ks[i]), ks[i])]

MapValidate(q, u, f, H, o) ==
  IF ~IsObject(u) THEN Return(<<Error("value_must_be_object", f, CNil)>>, H)
  ELSE DescendLoop(MapTasks(q, u, o), 1, <<>>, f, H, o)

ArrayTasks(q, u) == [i \in 1..Len(u.e) |-> Descend(q.cs[1], u.e[i], Itoa(i - 1))]

ArrayValidate(q, u, f, H, o) ==
  IF ~IsArray(u) THEN Return(<<Error("value_must_be_array", f, CNil)>>, H)
  ELSE DescendLoop(ArrayTasks(q, u), 1, <<>>, f, H, o)

\* an Optional that always delegates
OptionalValidateAlways(q, u, f, H, o) == Validate(q.cs[1], u, f, H, o)

OptionalValidate(q, u, f, H, o) ==
  IF IsNull(u) THEN Return(NoErrors, H) ELSE Validate(q.cs[1], u, f, H, o)

\* RecursiveValidator.Validate: r.v.Validate(v, f)
RecursiveValidate(q, u, f, H, o) == Validate(Defined(q.x), u, f, H, o)

LengthBetweenValidate(q, u, f, H, o) ==
  Validate(And(<<Or(<<String, Array(Anything)>>), LengthLambda(q.x, q.y)>>), u, f, H, o)

NumberBetweenValidate(q, u, f, H, o) ==
  Validate(And(<<Number, NumberLambda(q.x, q.y)>>), u, f, H, o)

WholeNumberValidate(q, u, f, H, o) ==
  Validate(And(<<Number, WholeLambda>>), u, f, H, o)

WholeNumberBetweenValidate(q, u, f, H, o) ==
  Validate(And(<<WholeNumber, NumberBetween(q.x, q.y)>>), u, f, H, o)

Validate(q, u, f, H, o) ==
  CASE q.t = "anything" -> Return(NoErrors, H)
    [] q.t = "string"   -> TypeValidate(IsString(u), "value_must_be_string", f, H)
    [] q.t = "number"   -> TypeValidate(IsNumber(u), "value_must_be_number", f, H)
    [] q.t = "boolean"  -> TypeValidate(IsBoolean(u), "value_must_be_boolean", f, H)
    [] q.t = "null"     -> TypeValidate(IsNull(u), "value_must_be_null", f, H)
    [] q.t = "and"      -> AndValidate(q, u, f, H, o)
    [] q.t = "or"       -> OrValidate(q, u, f, H, o)
    [] q.t = "object"   -> ObjectValidate(q, u, f, H, o)
    [] q.t = "case"     -> CaseValidate(q, u, f, H, o)
    [] q.t = "map"      -> MapValidate(q, u, f, H, o)
    [] q.t = "array"    -> ArrayValidate(q, u, f, H, o)
    [] q.t = "optional" -> OptionalValidate(q, u, f, H, o)
    [] q.t = "recursive" -> RecursiveValidate(q, u, f, H, o)
    [] q.t = "lengthBetween" -> LengthBetweenValidate(q, u, f, H, o)
    [] q.t = "lengthLambda"  -> LengthLambdaValidate(q, u, f, H)
    [] q.t = "numberBetween" -> NumberBetweenValidate(q, u, f, H, o)
    [] q.t = "numberLambda"  -> NumberLambdaValidate(q, u, f, H)
    [] q.t = "wholeNumber"   -> WholeNumberValidate(q, u, f, H, o)
    [] q.t = "wholeLambda"   -> WholeLambdaValidate(u, f, H)
    [] q.t = "wholeNumberBetween" -> WholeNumberBetweenValidate(q, u, f, H, o)

-----------------------------------------------------------------------------
(* What the caller reads in the returned list: every path read through the *)
(* heap as it is when Validate returns.                                    *)

-----------------------------------------------------------------------------
(* Traverse(v, f): the walk that hands sub-values and their validators to  *)
(* the visitor f.  The result is the calls of f in order (vis), or a panic *)
(* (ok = FALSE) with the calls made before it.                             *)

\* the entry a[k] of a validator map for a key it does not have
NilValidator == Node("nil", <<>>, <<>>, 0, 0)
Lookup(q, k) == IF HasKey(q, k) THEN Child(q, k) ELSE NilValidator
Visited(vis) == [ok |-> TRUE, vis |-> vis]
Stopped(vis) == [ok |-> FALSE, vis |-> vis]

\* the Traverse calls that the Traverse of q makes on u, in order
TraverseCalls(q, u, o) ==
  CASE q.t \in {"and", "or"} -> [i \in 1..Len(q.cs) |-> [q |-> q.cs[i], u |-> u]]
    [] q.t = "optional" -> <<[q |-> q.cs[1], u |-> u]>>
    [] q.t = "recursive" -> <<[q |-> Defined(q.x), u |-> u]>>
    [] q.t = "array" -> [i \in 1..Len(u.e) |-> [q |-> q.cs[1], u |-> u.e[i]]]
    [] q.t = "map" ->
         LET ks == ValueKeys(u, o)
         IN [i \in 1..Len(ks) |-> [q |-> q.cs[1], u |-> ObjectKey(u, ks[i])]]
    [] q.t = "object" ->
         LET ks == ValueKeys(u, o)
         IN [i \in 1..Len(ks) |-> [q |-> Lookup(q, ks[i]), u |-> ObjectKey(u, ks[i])]]
    [] q.t = "case" ->
         LET ks == ValueKeys(u, o)
         IN IF Len(ks) = 0 THEN <<[q |-> Lookup(q, ""), u |-> JNull]>>
            ELSE <<[q |-> Lookup(q, ks[Len(ks)]), u |-> ObjectKey(u, ks[Len(ks)])]>>

\* the type assertion v.(T) at the head of the Traverse of q holds
Asserted(q, u) ==
  CASE q.t \in {"object", "map", "case"} -> IsObject(u)
    [] q.t = "array" -> IsArray(u)
    [] OTHER -> TRUE

RECURSIVE Traverse(_, _, _)
RECURSIVE TraverseLoop(_, _, _, _)
TraverseLoop(ts, i, vis, o) ==
  IF i > Len(ts) THEN Visited(vis)
  ELSE LET r == Traverse(ts[i].q, ts[i].u, o)
       IN IF ~r.ok THEN Stopped(vis \o r.vis)
          ELSE TraverseLoop(ts, i + 1, vis \o r.vis, o)

Traverse(q, u, o) ==
  IF q.t = "nil" \/ ~Asserted(q, u) THEN Stopped(<<>>)
  ELSE IF q.t \in {"and", "or", "optional", "recursive", "array", "map", "object", "case"}
       THEN TraverseLoop(TraverseCalls(q, u, o), 1, <<>>, o)
  ELSE Visited(<<[u |-> u, q |-> q]>>)

RECURSIVE Read(_, _)
Read(es, H) ==
  [i \in 1..Len(es) |->
     [Label |-> es[i].Label,
      Field |-> Segs(H, es[i].Field),
      Context |-> [ty |-> es[i].Context.ty, sv |-> es[i].Context.sv,
                   es |-> Read(es[i].Context.es, H)]]]

\* the root path handed to Validate: its segments and its spare capacity
RootHeap(r) == IF Len(r.segs) + r.spare = 0 THEN <<>>
               ELSE <<[cap |-> Len(r.segs) + r.spare, data |-> r.segs]>>
RootSlice(r) == IF Len(r.segs) + r.spare = 0 THEN NilSlice
                ELSE [a |-> 1, n |-> Len(r.segs)]

\* one call of Validate by a caller, as the caller sees it
Call(q, u, r, o) ==
  LET c == Validate(q, u, RootSlice(r), RootHeap(r), o)
  IN [ok |-> c.ok, es |-> Read(c.es, c.H)]

-----------------------------------------------------------------------------
(* The inputs of the model: values, validator trees built by the           *)
(* constructors, root paths.                                               *)

SortedKeys(S) == Restrict(KeyPool, S)

Atoms == {Str(<<>>), Str(<<"x">>), Str(<<"U+00E9">>), Num(1), JNull, Bool}
Members == {Str(<<"x">>), Num(1)}

Arrays == UNION {{Arr(e) : e \in [1..n -> Members]} : n \in 0..MaxArr}
Objects == UNION {{Obj(SortedKeys(S), e) : e \in [1..Cardinality(S) -> Members]} : S \in SUBSET Keys}

Values == Atoms \cup Arrays \cup Objects

Leaves == {String, Number, Null, Length(1), Length(2), LengthBetween(1, 2), Optional(String)}
Optionals == {Optional(e) : e \in {Number, Array(String), Length(1),
                                   And(<<LengthBetween(1, 2), LengthBetween(1, 2)>>)}}
Fields == {String, Optional(String)}
Structs == {Map(String), Map(Number), Array(String), Array(Number)}

Schemas == UNION {{Object(SortedKeys(S), cs) : cs \in [1..Cardinality(S) -> Fields]} : S \in SUBSET Keys}
\* a validator that panics on nil, and the schemas of one key that hold it
PanicsOnNil == And(<<LengthBetween(1, 2), LengthBetween(1, 2)>>)
Guarded == {Object(<<k>>, <<PanicsOnNil>>) : k \in Keys}

Logical == {And(<<a, b>>) : a, b \in Leaves} \cup {Or(<<a, b>>) : a, b \in Leaves}
Nested == {And(<<And(<<a, b>>), c>>) : a, b, c \in {String, Number, Length(1)}}
            \cup {Or(<<a, Or(<<b, c>>)>>) : a, b, c \in {String, Number, Null}}
            \cup {And(<<a, b>>) : a, b \in Structs \cup {Object(<<"a">>, <<String>>)}}
            \cup {Or(<<a, b>>) : a, b \in Structs}

\* the Case validators, and the mappings of one key that hold a sequence
Cases == {Case(<<"a">>, <<String>>), Case(<<"a">>, <<Array(String)>>),
          Case(<<"a", "b">>, <<Number, Array(Number)>>)}
CaseValues == {Obj(<<k>>, <<a>>) : k \in Keys, a \in Arrays}

\* the validators of the value of a number
Ranged == {NumberBetween(1, 2), WholeNumber, WholeNumberBetween(1, 2)}

Validators == Leaves \cup Optionals \cup Structs \cup Schemas \cup Guarded \cup Logical \cup Nested
                \cup Ranged

\* the recursive validators, and the lists nested deeper than Arrays are
Recursives == {Recursion(ListOfLists)}
RECURSIVE Wrap(_, _)
Wrap(a, d) == IF d = 0 THEN a ELSE Arr(<<Wrap(a, d - 1)>>)
NestedLists == {Wrap(a, d) : a \in Arrays, d \in 1..MaxDepth}
                 \cup {Arr(<<m, a>>) : m \in Members, a \in Arrays}

Roots == {[segs |-> g, spare |-> s] : g \in {<<>>, <<"r">>}, s \in 0..MaxSpare}

\* the enumeration orders of one run: d for the schema maps, v for the values
Orders == [d : Perms, v : Perms]

\* the inputs on which a choice of the run matters: a validator that appends
\* to the path, the keys of the schemas and of the mappings of two keys or more
RECURSIVE Appends(_)
Appends(q) == \/ q.t \in {"object", "map", "array", "lengthBetween", "recursive", "case"}
              \/ \E i \in 1..Len(q.cs) : Appends(q.cs[i])
RECURSIVE WideSchemaKeys(_)
WideSchemaKeys(q) ==
  (IF q.t = "object" /\ Len(q.ks) >= 2 THEN Range(q.ks) ELSE {})
    \cup UNION {WideSchemaKeys(q.cs[i]) : i \in 1..Len(q.cs)}
RECURSIVE WideValueKeys(_)
WideValueKeys(u) ==
  (IF IsObject(u) /\ Len(u.ks) >= 2 THEN Range(u.ks) ELSE {})
    \cup UNION {WideValueKeys(u.e[i]) : i \in 1..Len(u.e)}

\* an order that moves only the keys of S: the others come last, sorted
MovesOnly(o, S) == o = Restrict(o, S) \o SortedKeys(Keys \ S)

\* the orders that can differ in their effect on validator q and value u
OrdersFor(q, u) == {o \in Orders : /\ MovesOnly(o.d, WideSchemaKeys(q))
                                   /\ MovesOnly(o.v, WideValueKeys(u))}

-----------------------------------------------------------------------------
(* The state machine: a caller holds a validator tree, a value and a root  *)
(* path, calls Validate, and then calls it a second time with the same     *)
(* inputs or walks the value with Traverse.                                *)
(* run is the enumeration order of the first call.                         *)

NoResult == [ok |-> TRUE, es |-> <<>>]

\* marks[x] is the field l of recursive node x: the identifier it carries while a
\* describe call is inside it, 0 otherwise; by is the call that wrote it (a
\* record of the history, not a field of the code)
Unmarked == [id |-> 0, by |-> 0]
Marked(id, w) == IF id = 0 THEN Unmarked ELSE [id |-> id, by |-> w]
NoMarks == [x \in RecursiveNodes |-> Unmarked]
NoWalks == <<>>
\* a call of a constructor: the function and its arguments
NewCall(g, cs, x, y) == [f |-> g, cs |-> cs, x |-> x, y |-> y]
NoCall == NewCall("none", <<>>, 0, 0)
\* no concurrent calls of Validate, and no memory shared between them
NoHeap == <<>>
\* no Validate call in progress
NoStack == <<>>
NoProcs == <<>>

Init ==
  /\ \/ p \in Validators /\ v \in Values
     \/ p \in Recursives /\ v \in Values \cup NestedLists
     \/ p \in Cases /\ v \in Values \cup CaseValues
  /\ root \in Roots
  /\ Appends(p) \/ root.spare = 0
  /\ pc = "start"
  /\ res = NoResult
  /\ res2 = NoResult
  /\ run = [d |-> SortedKeys(Keys), v |-> SortedKeys(Keys)]
  /\ marks = NoMarks
  /\ walk = NoWalks
  /\ call = NoCall
  /\ heap = NoHeap
  /\ procs = NoProcs
  /\ stack = NoStack

DoValidate ==
  /\ pc = "start"
  /\ \E o \in OrdersFor(p, v) :
       /\ run' = o
       /\ res' = Call(p, v, root, o)
  /\ pc' = "done"
  /\ UNCHANGED <<p, v, root, res2, marks, walk, call, heap, procs, stack>>

DoValidateAgain ==
  /\ pc = "done"
  /\ \E o \in OrdersFor(p, v) : res2' = Call(p, v, root, o)
  /\ pc' = "again"
  /\ UNCHANGED <<p, v, root, res, run, marks, walk, call, heap, procs, stack>>

\* the caller walks the value it has validated
DoTraverse ==
  /\ pc = "done"
  /\ \E o \in OrdersFor(p, v) : res2' = Traverse(p, v, o)
  /\ pc' = "traversed"
  /\ UNCHANGED <<p, v, root, res, run, marks, walk, call, heap, procs, stack>>

Next == DoValidate \/ DoValidateAgain \/ DoTraverse

Spec == Init /\ [][Next]_vars

-----------------------------------------------------------------------------
(* Tuple, which only jval.go has.  In jval.go a path is a string, extended *)
(* by f + "." + strconv.Itoa(i): here the sequence of the pieces that were *)
(* concatenated.  And returns the violations of its first failing child.   *)
(* A result is the violations and, as a record of the run, the positions   *)
(* the loops of the Tuples evaluated (ran).                                *)

Tuple(cs) == Node("tuple", cs, <<>>, 0, 0)
\* And and Or of jval.go: any number of children, no panic
JAnd(cs) == Node("and", cs, <<>>, 0, 0)
JOr(cs) == Node("or", cs, <<>>, 0, 0)
TupleLambda(cs) == Node("tupleLambda", cs, <<>>, 0, 0)
Dot(f, k) == f \o <<".", k>>
JResult(es, ran) == [es |-> es, ran |-> ran]
JType(is, label, f) ==
  IF is THEN JResult(<<>>, <<>>) ELSE JResult(<<Error(label, f, CNil)>>, <<>>)

RECURSIVE JvalValidate(_, _, _)

\* AndValidator.Validate: the violations of the first child that fails
RECURSIVE JAndLoop(_, _, _, _, _)
JAndLoop(cs, i, ran, u, f) ==
  IF i > Len(cs) THEN JResult(<<>>, ran)
  ELSE LET r == JvalValidate(cs[i], u, f)
       IN IF Len(r.es) # 0 THEN JResult(r.es, ran \o r.ran)
          ELSE JAndLoop(cs, i + 1, ran \o r.ran, u, f)

\* OrValidator.Validate
RECURSIVE JOrLoop(_, _, _, _, _, _)
JOrLoop(cs, i, ae, ran, u, f) ==
  IF i > Len(cs) THEN JResult(ae, ran)
  ELSE LET r == JvalValidate(cs[i], u, f)
       IN IF Len(r.es) = 0 THEN JResult(<<>>, ran \o r.ran)
          ELSE JOrLoop(cs, i + 1, ae \o r.es, ran \o r.ran, u, f)

\* ArrayValidator.Validate: every element, all violations
RECURSIVE JArrayLoop(_, _, _, _, _, _)
JArrayLoop(e, i, ae, ran, u, f) ==
  IF i > Len(u.e) THEN JResult(ae, ran)
  ELSE LET r == JvalValidate(e, u.e[i], Dot(f, Itoa(i - 1)))
       IN JArrayLoop(e, i + 1, ae \o r.es, ran \o r.ran, u, f)

\* a Tuple whose loop goes on after a position that fails
RECURSIVE TupleLoopCollectAll(_, _, _, _, _, _)
TupleLoopCollectAll(cs, i, ae, ran, u, f) ==
  IF i > Len(cs) THEN JResult(ae, ran)
  ELSE LET g == Dot(f, Itoa(i - 1))
           r == JvalValidate(cs[i], u.e[i], g)
       IN TupleLoopCollectAll(cs, i + 1, ae \o r.es,
                              (ran \o <<[pos |-> i, f |-> g]>>) \o r.ran, u, f)

\* the loop of the lambda of TupleValidator.Validate
RECURSIVE TupleLoop(_, _, _, _, _, _)
TupleLoop(cs, i, ae, ran, u, f) ==
  IF i > Len(cs) THEN JResult(<<>>, ran)
  ELSE LET g == Dot(f, Itoa(i - 1))
           r == JvalValidate(cs[i], u.e[i], g)
           ran2 == (ran \o <<[pos |-> i, f |-> g]>>) \o r.ran
       IN IF Len(r.es) # 0 THEN JResult(r.es, ran2)
          ELSE TupleLoop(cs, i + 1, ae, ran2, u, f)

\* the lambda of LengthBetweenValidator.Validate; StringLength is jsem's and
\* is taken as the count of code points
JLengthLambda(q, u, f) ==
  LET l == IF IsArray(u) THEN Len(u.e) ELSE IF IsString(u) THEN Len(u.s) ELSE 0
  IN IF l < q.x \/ l > q.y
     THEN JResult(<<Error("value_must_have_length_between", f, CMapInt(q.x, q.y))>>, <<>>)
     ELSE JResult(<<>>, <<>>)

JvalValidate(q, u, f) ==
  CASE q.t = "anything" -> JResult(<<>>, <<>>)
    [] q.t = "string" -> JType(IsString(u), "value_must_be_string", f)
    [] q.t = "number" -> JType(IsNumber(u), "value_must_be_number", f)
    [] q.t = "and" -> JAndLoop(q.cs, 1, <<>>, u, f)
    [] q.t = "or" -> JOrLoop(q.cs, 1, <<>>, <<>>, u, f)
    [] q.t = "array" ->
         IF ~IsArray(u) THEN JResult(<<Error("value_must_be_array", f, CNil)>>, <<>>)
         ELSE JArrayLoop(q.cs[1], 1, <<>>, <<>>, u, f)
    [] q.t = "lengthBetween" ->
         JvalValidate(JAnd(<<JOr(<<String, Array(Anything)>>),
                             Node("lengthLambda", <<>>, <<>>, q.x, q.y)>>), u, f)
    [] q.t = "lengthLambda" -> JLengthLambda(q, u, f)
    [] q.t = "tuple" ->
         JvalValidate(JAnd(<<Array(Anything), Length(Len(q.cs)), TupleLambda(q.cs)>>), u, f)
    [] q.t = "tupleLambda" -> TupleLoop(q.cs, 1, <<>>, <<>>, u, f)

TupleLeaves == {String, Number, Anything, Array(String)}
Tuples == UNION {{Tuple(cs) : cs \in [1..n -> TupleLeaves]} : n \in 0..MaxTuple}
            \cup {Tuple(<<Tuple(<<a, b>>), c>>) : a, b, c \in {String, Number}}
TupleValues == Values \cup {Arr(<<m, a>>) : m \in Members, a \in Arrays}
                 \cup {Arr(<<a, m>>) : m \in Members, a \in Arrays}
                 \cup UNION {{Arr(e) : e \in [1..n -> Members]} : n \in 0..MaxTuple}

InitTuple ==
  /\ p \in Tuples
  /\ v \in TupleValues
  /\ root \in {[segs |-> g, spare |-> 0] : g \in {<<>>, <<"r">>}}
  /\ pc = "tuple"
  /\ res = NoResult
  /\ res2 = NoResult
  /\ run = [d |-> SortedKeys(Keys), v |-> SortedKeys(Keys)]
  /\ marks = NoMarks
  /\ walk = NoWalks
  /\ call = NoCall
  /\ heap = NoHeap
  /\ procs = NoProcs
  /\ stack = NoStack

DoValidateTuple ==
  /\ pc = "tuple"
  /\ res' = JvalValidate(p, v, root.segs)
  /\ pc' = "done"
  /\ UNCHANGED <<p, v, root, res2, run, marks, walk, call, heap, procs, stack>>

NextTuple == DoValidateTuple

SpecTuple == InitTuple /\ [][NextTuple]_vars

-----------------------------------------------------------------------------
(* The nesting of Validate calls on a recursive validator, a call at a     *)
(* time.  stack is the calls in progress, the innermost last; a frame is   *)
(* the validator, its value, the next of the calls it makes and whether it *)
(* has a violation so far.                                                 *)

\* the calls of Validate that q.Validate(u) makes, in order
SubCalls(q, u) ==
  CASE q.t \in {"and", "or"} -> [i \in 1..Len(q.cs) |-> [q |-> q.cs[i], u |-> u]]
    [] q.t = "array" -> IF IsArray(u) THEN [i \in 1..Len(u.e) |-> [q |-> q.cs[1], u |-> u.e[i]]]
                        ELSE <<>>
    [] q.t = "recursive" -> <<[q |-> Defined(q.x), u |-> u]>>
    [] OTHER -> <<>>
\* whether q has a violation of u before any call it makes; an Or has one
\* until a child succeeds
Own(q, u) ==
  CASE q.t = "string" -> ~IsString(u)
    [] q.t = "number" -> ~IsNumber(u)
    [] q.t = "array" -> ~IsArray(u)
    [] q.t = "or" -> TRUE
    [] OTHER -> FALSE
Frame(q, u) == [q |-> q, u |-> u, i |-> 1, bad |-> Own(q, u)]
Innermost == stack[Len(stack)]

SelfRecursives == {Recursion(ListOfLists), Recursion(OrSelf), Recursion(AndSelf)}

InitNested ==
  /\ p \in SelfRecursives
  /\ v \in Atoms \cup Arrays
  /\ root = [segs |-> <<>>, spare |-> 0]
  /\ pc = "nested"
  /\ res = NoResult
  /\ res2 = NoResult
  /\ run = [d |-> SortedKeys(Keys), v |-> SortedKeys(Keys)]
  /\ marks = NoMarks
  /\ walk = NoWalks
  /\ call = NoCall
  /\ heap = NoHeap
  /\ procs = NoProcs
  /\ stack = <<Frame(p, v)>>

\* the innermost call makes its next call
CallValidate ==
  /\ pc = "nested"
  /\ stack # <<>>
  /\ Len(stack) < MaxNest
  /\ Innermost.i <= Len(SubCalls(Innermost.q, Innermost.u))
  /\ LET c == SubCalls(Innermost.q, Innermost.u)[Innermost.i]
     IN stack' = Append(stack, Frame(c.q, c.u))
  /\ UNCHANGED <<p, v, root, pc, res, res2, run, marks, walk, call, heap, procs>>

\* the innermost call returns to its caller: an Or returns at the first
\* child without violation, the others go on and collect
ReturnValidate ==
  /\ pc = "nested"
  /\ stack # <<>>
  /\ Innermost.i > Len(SubCalls(Innermost.q, Innermost.u))
  /\ IF Len(stack) = 1
     THEN /\ stack' = <<>>
          /\ pc' = "returned"
          /\ res' = [ok |-> TRUE, es |-> <<>>, bad |-> Innermost.bad]
     ELSE LET r == Innermost
              c == stack[Len(stack) - 1]
              n == Len(SubCalls(c.q, c.u))
              c2 == IF c.q.t = "or"
                    THEN IF r.bad THEN [c EXCEPT !.i = c.i + 1]
                         ELSE [c EXCEPT !.i = n + 1, !.bad = FALSE]
                    ELSE [c EXCEPT !.i = c.i + 1, !.bad = c.bad \/ r.bad]
          IN /\ stack' = Append(SubSeq(stack, 1, Len(stack) - 2), c2)
             /\ UNCHANGED <<pc, res>>
  /\ UNCHANGED <<p, v, root, res2, run, marks, walk, call, heap, procs>>

NextNested == CallValidate \/ ReturnValidate

SpecNested == InitNested /\ [][NextNested]_vars

-----------------------------------------------------------------------------
(* Construction: a caller calls a constructor with arguments that may be   *)
(* misuse, and validates a value with the validator it gets, if it gets    *)
(* one.                                                                    *)

Logicals == {"And", "Or"}
Ranges == {"LengthBetween", "NumberBetween", "WholeNumberBetween"}
Calls == {NewCall(g, cs, 0, 0) :
            g \in Logicals, cs \in UNION {[1..n -> {String, Number}] : n \in 0..MaxChildren}}
          \cup {NewCall(g, <<>>, x, y) : g \in Ranges, x \in 0..MaxRange, y \in 0..MaxRange}

Apply(c) ==
  CASE c.f = "And" -> And(c.cs)
    [] c.f = "Or" -> Or(c.cs)
    [] c.f = "LengthBetween" -> LengthBetween(c.x, c.y)
    [] c.f = "NumberBetween" -> NumberBetween(c.x, c.y)
    [] c.f = "WholeNumberBetween" -> WholeNumberBetween(c.x, c.y)

InitConstruct ==
  /\ call \in Calls
  /\ p = Aborted
  /\ v \in {Num(0), Num(1), HalfPast(1), Str(<<"x">>), Arr(<<>>), JNull}
  /\ root = [segs |-> <<>>, spare |-> 0]
  /\ pc = "new"
  /\ res = NoResult
  /\ res2 = NoResult
  /\ run = [d |-> SortedKeys(Keys), v |-> SortedKeys(Keys)]
  /\ marks = NoMarks
  /\ walk = NoWalks
  /\ heap = NoHeap
  /\ procs = NoProcs
  /\ stack = NoStack

Construct ==
  /\ pc = "new"
  /\ p' = Apply(call)
  /\ pc' = IF Apply(call) = Aborted THEN "aborted" ELSE "start"
  /\ UNCHANGED <<v, root, res, res2, run, marks, walk, call, heap, procs, stack>>

NextConstruct == Construct \/ DoValidate \/ DoValidateAgain

SpecConstruct == InitConstruct /\ [][NextConstruct]_vars

-----------------------------------------------------------------------------
(* Concurrent use: two goroutines call Validate on the same validator with *)
(* the same root path slice, each with a value of its own.  A call is a    *)
(* loop over its tasks; one turn of the loop extends the path in the       *)
(* memory the calls share (heap), validates the sub-value and keeps the    *)
(* violations, which hold references to their paths.  The caller reads     *)
(* the violations when the call returns.                                   *)

Goroutines == {1, 2}
Containers == Structs \cup {Object(<<"a">>, <<String>>)}
ValuesFor(q) == (IF q.t = "array" THEN Arrays ELSE Objects) \cup {Num(1)}

Sorted == [d |-> SortedKeys(Keys), v |-> SortedKeys(Keys)]
NewProc(u) == [u |-> u, o |-> Sorted, st |-> "begin", ts |-> <<>>, i |-> 1,
               ae |-> <<>>, ret |-> NoResult]

InitConcurrent ==
  /\ p \in Containers
  /\ v = JNull
  /\ root \in Roots
  /\ pc = "concurrent"
  /\ res = NoResult
  /\ res2 = NoResult
  /\ run = Sorted
  /\ marks = NoMarks
  /\ walk = NoWalks
  /\ call = NoCall
  /\ heap = RootHeap(root)
  /\ \E us \in [Goroutines -> ValuesFor(p)] : procs = [w \in Goroutines |-> NewProc(us[w])]
  /\ stack = NoStack

Matches(q, u) == IF q.t = "array" THEN IsArray(u) ELSE IsObject(u)
Tasks(q, u, o) ==
  CASE q.t = "array" -> ArrayTasks(q, u)
    [] q.t = "map" -> MapTasks(q, u, o)
    [] q.t = "object" -> ObjectTasks(q, u, o)
FirstErrors(q, u, f, o) ==
  IF q.t = "object" THEN UnexpectedKeys(q, u, f, o) ELSE <<>>

\* entry of Validate up to its loop: the test of the kind of the value, the
\* order of this call's enumerations, the undeclared keys
BeginValidate(w) ==
  LET c == procs[w]
  IN /\ pc = "concurrent"
     /\ c.st = "begin"
     /\ \E o \in OrdersFor(p, c.u) :
          procs' = [procs EXCEPT ![w] =
            IF Matches(p, c.u)
            THEN [c EXCEPT !.o = o, !.st = "loop", !.ts = Tasks(p, c.u, o),
                           !.ae = FirstErrors(p, c.u, RootSlice(root), o)]
            ELSE [c EXCEPT !.o = o, !.st = "returned",
                           !.ret = Call(p, c.u, root, o)]]
     /\ UNCHANGED <<p, v, root, pc, res, res2, run, marks, walk, call, heap, stack>>

\* one turn of the loop
StepValidate(w) ==
  LET c == procs[w]
  IN /\ pc = "concurrent"
     /\ c.st = "loop"
     /\ c.i <= Len(c.ts)
     /\ LET t == c.ts[c.i]
            a == GoAppend(heap, RootSlice(root), t.seg)
            r == Validate(t.q, t.u, a.f, a.H, c.o)
        IN IF t.missing
           THEN /\ procs' = [procs EXCEPT ![w] =
                     [c EXCEPT !.i = c.i + 1,
                               !.ae = Append(c.ae, Error("missing_object_key", RootSlice(root),
                                                         CString(t.seg)))]]
                /\ heap' = heap
           ELSE /\ procs' = [procs EXCEPT ![w] =
                     IF r.ok THEN [c EXCEPT !.i = c.i + 1, !.ae = c.ae \o r.es]
                     ELSE [c EXCEPT !.st = "returned", !.ret = [ok |-> FALSE, es |-> <<>>]]]
                /\ heap' = r.H
     /\ UNCHANGED <<p, v, root, pc, res, res2, run, marks, walk, call, stack>>

\* the return, and the caller's reading of the violations
EndValidate(w) ==
  LET c == procs[w]
  IN /\ pc = "concurrent"
     /\ c.st = "loop"
     /\ c.i > Len(c.ts)
     /\ procs' = [procs EXCEPT ![w] =
                    [c EXCEPT !.st = "returned", !.ret = [ok |-> TRUE, es |-> Read(c.ae, heap)]]]
     /\ UNCHANGED <<p, v, root, pc, res, res2, run, marks, walk, call, heap, stack>>

NextConcurrent ==
  \/ \E w \in DOMAIN procs : BeginValidate(w)
  \/ \E w \in DOMAIN procs : StepValidate(w)
  \/ \E w \in DOMAIN procs : EndValidate(w)

SpecConcurrent == InitConcurrent /\ [][NextConcurrent]_vars

-----------------------------------------------------------------------------
(* describe: MarshalJSON of the validator tree p, by one caller or by      *)
(* several at once.  A call is a stack of the nodes it has still to write  *)
(* and of the recursive nodes it has to leave, and the nodes written so    *)
(* far; a step writes one node.  The identifier of a recursive node is     *)
(* drawn from Ids = 0..MaxId.                                              *)

Ids == 0..MaxId

Visit(q) == [op |-> "visit", q |-> q, x |-> 0]
Leave(x) == [op |-> "leave", q |-> Anything, x |-> x]
\* a written node: its tag, its identifier (recursion and recurse), and the
\* recursive node it was written for (not part of the output)
Token(tag, x, id) == [tag |-> tag, x |-> x, id |-> id]

DescribeTrees == {Recursion(ListOfLists), Recursion(ListOfBoth),
                  Array(Recursion(ListOfLists)),
                  And(<<Recursion(ListOfLists), Recursion(ListOfLists)>>),
                  Or(<<String, Recursion(ListOfLists)>>)}

\* one caller, or two at once
Callers == {1, 2}

StartWalk(q) == [stack |-> <<Visit(q)>>, out |-> <<>>, foreign |-> FALSE]

InitDescribe ==
  /\ p \in DescribeTrees
  /\ v = JNull
  /\ root = [segs |-> <<>>, spare |-> 0]
  /\ pc = "describe"
  /\ res = NoResult
  /\ res2 = NoResult
  /\ run = [d |-> SortedKeys(Keys), v |-> SortedKeys(Keys)]
  /\ marks = NoMarks
  /\ call = NoCall
  /\ heap = NoHeap
  /\ procs = NoProcs
  /\ stack = NoStack
  /\ \E n \in Callers : walk = [w \in 1..n |-> StartWalk(p)]

Top(w) == Head(walk[w].stack)
AtRecursive(w) ==
  /\ walk[w].stack # <<>>
  /\ Top(w).op = "visit"
  /\ Top(w).q.t = "recursive"

\* an entry that sets the identifier and schedules no reset of it
EnterRecursionNoReset(w) ==
  /\ AtRecursive(w)
  /\ marks[Top(w).q.x].id = 0
  /\ Len(walk[w].out) < MaxWalk
  /\ \E id \in Ids :
       /\ marks' = [marks EXCEPT ![Top(w).q.x] = Marked(id, w)]
       /\ walk' = [walk EXCEPT ![w] =
                     [stack |-> <<Visit(Defined(Top(w).q.x))>> \o Tail(walk[w].stack),
                      out |-> Append(walk[w].out, Token("recursion", Top(w).q.x, id)),
                      foreign |-> walk[w].foreign]]
  /\ UNCHANGED <<p, v, root, pc, res, res2, run, call, heap, procs, stack>>

\* a.l == 0: draw the identifier, write the recursion node, go into the body
EnterRecursion(w) ==
  /\ AtRecursive(w)
  /\ marks[Top(w).q.x].id = 0
  /\ Len(walk[w].out) < MaxWalk
  /\ \E id \in Ids :
       /\ marks' = [marks EXCEPT ![Top(w).q.x] = Marked(id, w)]
       /\ walk' = [walk EXCEPT ![w] =
                     [stack |-> <<Visit(Defined(Top(w).q.x)), Leave(Top(w).q.x)>>
                                  \o Tail(walk[w].stack),
                      out |-> Append(walk[w].out, Token("recursion", Top(w).q.x, id)),
                      foreign |-> walk[w].foreign]]
  /\ UNCHANGED <<p, v, root, pc, res, res2, run, call, heap, procs, stack>>

\* a.l # 0: write the recurse node with the identifier found on the node
WriteRecurse(w) ==
  /\ AtRecursive(w)
  /\ marks[Top(w).q.x].id # 0
  /\ walk' = [walk EXCEPT ![w] =
                [stack |-> Tail(walk[w].stack),
                 out |-> Append(walk[w].out,
                                Token("recurse", Top(w).q.x, marks[Top(w).q.x].id)),
                 foreign |-> walk[w].foreign \/ marks[Top(w).q.x].by # w]]
  /\ UNCHANGED <<p, v, root, pc, res, res2, run, marks, call, heap, procs, stack>>

\* a return from the body that leaves the identifier on the node
LeaveRecursionKeepsMarker(w) ==
  /\ walk[w].stack # <<>>
  /\ Top(w).op = "leave"
  /\ walk' = [walk EXCEPT ![w].stack = Tail(walk[w].stack)]
  /\ UNCHANGED <<p, v, root, pc, res, res2, run, marks, call, heap, procs, stack>>

\* a.l = 0 once the body is written
LeaveRecursion(w) ==
  /\ walk[w].stack # <<>>
  /\ Top(w).op = "leave"
  /\ marks' = [marks EXCEPT ![Top(w).x] = Unmarked]
  /\ walk' = [walk EXCEPT ![w].stack = Tail(walk[w].stack)]
  /\ UNCHANGED <<p, v, root, pc, res, res2, run, call, heap, procs, stack>>

\* MarshalJSON of the other nodes: the tag, then the children in order
WriteNode(w) ==
  /\ walk[w].stack # <<>>
  /\ Top(w).op = "visit"
  /\ Top(w).q.t # "recursive"
  /\ walk' = [walk EXCEPT ![w] =
                [stack |-> [i \in 1..Len(Top(w).q.cs) |-> Visit(Top(w).q.cs[i])]
                             \o Tail(walk[w].stack),
                 out |-> Append(walk[w].out, Token(Top(w).q.t, 0, 0)),
                 foreign |-> walk[w].foreign]]
  /\ UNCHANGED <<p, v, root, pc, res, res2, run, marks, call, heap, procs, stack>>

NextDescribe ==
  \/ \E w \in DOMAIN walk : EnterRecursion(w)
  \/ \E w \in DOMAIN walk : WriteRecurse(w)
  \/ \E w \in DOMAIN walk : LeaveRecursion(w)
  \/ \E w \in DOMAIN walk : WriteNode(w)

SpecDescribe == InitDescribe /\ [][NextDescribe]_vars

-----------------------------------------------------------------------------
(* Observers of a finished call, used by the properties below.             *)

\* the calls a combinator makes on its children, in order, each starting
\* from the heap the previous one left; the list ends at a call that panics
RECURSIVE ChildRuns(_, _, _, _, _, _)
ChildRuns(cs, i, u, f, H, o) ==
  IF i > Len(cs) THEN <<>>
  ELSE LET r == Validate(cs[i], u, f, H, o)
       IN <<r>> \o (IF r.ok THEN ChildRuns(cs, i + 1, u, f, r.H, o) ELSE <<>>)

\* the child calls of the first call of the state
Kids == ChildRuns(p.cs, 1, v, RootSlice(root), RootHeap(root), run)
KidsHeap == Kids[Len(Kids)].H
\* the violations child i returned, as they read when the last child is done
KidErrors(i) == Read(Kids[i].es, KidsHeap)
\* the children that did not succeed
Failing == {i \in 1..Len(Kids) : ~Kids[i].ok \/ Kids[i].es # <<>>}
AllKidsRan == Len(Kids) = Len(p.cs) /\ Kids[Len(Kids)].ok

\* reason and path of a violation
Key(e) == <<e.Label, e.Field>>
\* the violations a result shows: its own and the members of its aggregate
Shown(tag) == Range(res.es) \cup Range(Splice(res.es, tag))

Done == pc = "done"
Succeeded == res.ok /\ res.es = <<>>

\* validator q accepts value u
Accepts(q, u) ==
  LET c == Call(q, u, [segs |-> <<>>, spare |-> 0], run) IN c.ok /\ c.es = <<>>

-----------------------------------------------------------------------------
(* C1: Object(schema).Validate returns no violation if and only if the     *)
(* value is a mapping whose key set is exactly the declared key set and    *)
(* every declared key's value is accepted by its validator; an undeclared  *)
(* key, or a declared key that is absent (Optional or not), fails.         *)
C1_ObjectKeySetClosed ==
  (Done /\ p.t = "object") =>
     (Succeeded <=> /\ IsObject(v)
                    /\ Range(v.ks) = Range(p.ks)
                    /\ \A k \in Range(p.ks) : Accepts(Child(p, k), ObjectKey(v, k)))

\* an Object whose Optional key is absent from the mapping has failed
C1_Witness ==
  /\ Done /\ p.t = "object" /\ IsObject(v)
  /\ \E k \in Range(p.ks) : Child(p, k).t = "optional" /\ ~HasKey(v, k)
  /\ Range(v.ks) \subseteq Range(p.ks)
  /\ res.ok /\ res.es # <<>>

(* C2: And evaluates every child and does not short-circuit: the call      *)
(* returns, and every violation returned by any child is shown in the      *)
(* result (itself or inside the and aggregate) up to reason and path.      *)
C2_AndCollectsAll ==
  (Done /\ p.t = "and") =>
     /\ res.ok
     /\ \A i \in 1..Len(Kids) : \A j \in 1..Len(Kids[i].es) :
           \E m \in Shown("and") : Key(m) = Key(KidErrors(i)[j])

(* C3: the result of And and Or is empty, or one violation returned as it  *)
(* is, or one aggregate tagged and (or) whose context lists at least two   *)
(* violations pairwise distinct by reason and path; never longer than one. *)
C3_AggregateShape ==
  (Done /\ p.t \in {"and", "or"} /\ res.ok) =>
     /\ Len(res.es) <= 1
     /\ (Len(res.es) = 1 /\ res.es[1].Label = p.t) =>
          LET ms == res.es[1].Context.es
          IN /\ res.es[1].Context.ty = "[]Error"
             /\ Len(ms) >= 2
             /\ \A i, j \in 1..Len(ms) : Key(ms[i]) = Key(ms[j]) => i = j

(* C4: Or yields no violation as soon as a child succeeds: when a child    *)
(* call of the run returns no violation, the result of Or is empty,        *)
(* whatever the other children return.                                     *)
C4_OrShortCircuits ==
  (Done /\ p.t = "or") =>
     ((\E i \in 1..Len(Kids) : Kids[i].ok /\ Kids[i].es = <<>>) => Succeeded)

\* a failing first child, a succeeding second one, and an empty result
C4_Witness ==
  /\ Done /\ p.t = "or" /\ Len(Kids) = 2
  /\ Kids[1].ok /\ Kids[1].es # <<>>
  /\ Kids[2].ok /\ Kids[2].es = <<>>
  /\ Succeeded

Collected == Concat([i \in 1..Len(Kids) |-> Splice(Kids[i].es, p.t)])

(* C6: the equality that deduplicates compares reason and path only and    *)
(* never the context: of the violations And or Or has collected, any two   *)
(* with the same reason and path are equal whatever their contexts, and    *)
(* any two that differ in reason or in a path segment are not.             *)
C6_EqualsIgnoresContext ==
  (Done /\ p.t \in {"and", "or"} /\ AllKidsRan /\ \A i \in 1..Len(Kids) : Kids[i].es # <<>>) =>
     \A i, j \in 1..Len(Collected) : i # j =>
        Equals(Collected[i], Collected[j], KidsHeap) =
          (IF Key(Read(Collected, KidsHeap)[i]) = Key(Read(Collected, KidsHeap)[j])
           THEN "true" ELSE "false")

(* C7: Validate never aborts: every call returns a violation list.         *)
C7_NeverAborts == Done => res.ok

(* C8: Validate is deterministic: a second call with the same validator,   *)
(* value and root path returns the same violations in the same order.      *)
C8_Deterministic == pc = "again" => res2 = res

C10_SingleKeyViolation ==
  (Done /\ p.t = "object" /\ IsObject(v) /\ Range(v.ks) = Range(p.ks)) =>
     \A k \in Range(p.ks) :
        (/\ Child(p, k).t = "string" /\ ~IsString(ObjectKey(v, k))
         /\ \A h \in Range(p.ks) \ {k} : Accepts(Child(p, h), ObjectKey(v, h)))
          => /\ res.ok
             /\ res.es = <<[Label |-> "value_must_be_string",
                            Field |-> Append(root.segs, k),
                            Context |-> CNil]>>

\* the number of times violation e occurs in the list es
CountOf(es, e) == Cardinality({i \in 1..Len(es) : es[i] = e})

UnexpectedKey(k) ==
  [Label |-> "unexpected_object_key", Field |-> root.segs, Context |-> CString(k)]
MissingKey(k) ==
  [Label |-> "missing_object_key", Field |-> root.segs, Context |-> CString(k)]

(* C11: an Object reports every key of the value that the schema does not  *)
(* declare with one unexpected_object_key violation, at the object's own   *)
(* path and with the key as context, and no other such violation; when     *)
(* all declared keys are present and valid and one extra key b is present, *)
(* that violation is the whole result.  (Stated of the calls in which the  *)
(* validators of the keys return.)                                         *)
C11_UnexpectedKey ==
  (Done /\ p.t = "object" /\ IsObject(v) /\ res.ok) =>
     /\ \A k \in Keys :
          CountOf(res.es, UnexpectedKey(k)) = (IF k \in Range(v.ks) \ Range(p.ks) THEN 1 ELSE 0)
     /\ \A i \in 1..Len(res.es) :
          res.es[i].Label = "unexpected_object_key" => \E k \in Keys : res.es[i] = UnexpectedKey(k)
     /\ \A b \in Keys :
          (/\ Range(v.ks) = Range(p.ks) \cup {b} /\ b \notin Range(p.ks)
           /\ \A k \in Range(p.ks) : Accepts(Child(p, k), ObjectKey(v, k)))
            => res.es = <<UnexpectedKey(b)>>

\* a valid declared key, one extra key, and its violation alone
C11_Witness ==
  /\ Done /\ p.t = "object" /\ IsObject(v) /\ Len(p.ks) >= 1
  /\ \E b \in Keys \ Range(p.ks) :
       /\ Range(v.ks) = Range(p.ks) \cup {b}
       /\ res.ok /\ res.es = <<UnexpectedKey(b)>>

(* C12: for every declared key the mapping does not have, an Object emits  *)
(* one missing_object_key violation, at the object's path and with the key *)
(* as context, does not call the key's validator, and attributes no other  *)
(* violation to the key.  (Stated of the calls in which the validators of  *)
(* the keys that are present return.)                                      *)
C12_MissingKey ==
  (Done /\ p.t = "object" /\ IsObject(v) /\ res.ok) =>
     /\ \A k \in Keys :
          CountOf(res.es, MissingKey(k)) = (IF k \in Range(p.ks) \ Range(v.ks) THEN 1 ELSE 0)
     /\ \A k \in Range(p.ks) \ Range(v.ks) : \A i \in 1..Len(res.es) :
          /\ res.es[i].Field # Append(root.segs, k)
          /\ res.es[i].Context = CString(k) => res.es[i] = MissingKey(k)

\* a missing key whose validator would panic on nil, reported and no more
C12_Witness ==
  /\ Done /\ p \in Guarded /\ IsObject(v) /\ v.ks = <<>>
  /\ ~Accepts(p.cs[1], JNull) /\ ~Call(p.cs[1], JNull, root, run).ok
  /\ res.ok /\ res.es = <<MissingKey(p.ks[1])>>

(* C13: LengthBetween(min, max) on a string (measured in code points) or a *)
(* sequence (in elements) returns no violation if and only if              *)
(* min <= length <= max; otherwise exactly one violation at the unchanged  *)
(* path, value_must_have_length when min = max and                         *)
(* value_must_have_length_between when min < max.                          *)
C13_LengthBetween ==
  (Done /\ p.t = "lengthBetween" /\ (IsString(v) \/ IsArray(v))) =>
     LET n == IF IsString(v) THEN Len(v.s) ELSE Len(v.e)
     IN /\ res.ok
        /\ IF p.x <= n /\ n <= p.y THEN res.es = <<>>
           ELSE /\ Len(res.es) = 1
                /\ res.es[1].Field = root.segs
                /\ res.es[1].Label = (IF p.x = p.y THEN "value_must_have_length"
                                      ELSE "value_must_have_length_between")

\* a list whose leaves, at any depth, are all strings
RECURSIVE StringLeaves(_)
StringLeaves(u) ==
  IF IsArray(u) THEN \A i \in 1..Len(u.e) : StringLeaves(u.e[i]) ELSE IsString(u)
\* the index paths of the leaves of a list that are not strings
RECURSIVE OtherLeaves(_)
OtherLeaves(u) ==
  IF IsArray(u)
  THEN UNION {{<<Itoa(i - 1)>> \o w : w \in OtherLeaves(u.e[i])} : i \in 1..Len(u.e)}
  ELSE IF IsString(u) THEN {} ELSE {<<>>}
\* the violations of a list and, at any depth, of their aggregates
RECURSIVE Flat(_)
Flat(es) == Range(es) \cup UNION {Flat(es[i].Context.es) : i \in 1..Len(es)}

(* C14: R = Recursion(r -> Array(Or(String, r))), called with an empty     *)
(* root path, accepts every nested list whose leaves are all strings and   *)
(* rejects every nested list with a leaf that is not a string, reporting,  *)
(* for each such leaf, a violation whose path is the sequence of decimal   *)
(* indices leading to it.                                                  *)
C14_RecursiveList ==
  (Done /\ p = Recursion(ListOfLists) /\ IsArray(v) /\ root = [segs |-> <<>>, spare |-> 0]) =>
     /\ res.ok
     /\ StringLeaves(v) <=> res.es = <<>>
     /\ \A w \in OtherLeaves(v) : \E e \in Flat(res.es) : e.Field = w

\* the sub-values a structural validator descends into, each with the path
\* segment that leads to it and the validator that governs it
Descents ==
  IF p.t = "array" /\ IsArray(v)
  THEN {[seg |-> Itoa(i - 1), u |-> v.e[i], q |-> p.cs[1]] : i \in 1..Len(v.e)}
  ELSE IF p.t = "map" /\ IsObject(v)
  THEN {[seg |-> k, u |-> ObjectKey(v, k), q |-> p.cs[1]] : k \in Range(v.ks)}
  ELSE IF p.t = "object" /\ IsObject(v)
  THEN {[seg |-> k, u |-> ObjectKey(v, k), q |-> Child(p, k)] : k \in Range(v.ks) \cap Range(p.ks)}
  ELSE {}

(* C15: paths are copy-on-extend: for every root path, whatever its length *)
(* and spare capacity, the violation of a failing key or element is        *)
(* returned with the root path followed by its own segment; when several   *)
(* siblings fail each violation keeps its own last segment.                *)
C15_PathsCopyOnExtend ==
  (Done /\ res.ok) =>
     \A d \in Descents :
        (d.q.t \in {"string", "number"} /\ ~Accepts(d.q, d.u))
          => \E e \in Range(res.es) : e.Field = Append(root.segs, d.seg)

-----------------------------------------------------------------------------
(* Observers of describe.                                                  *)

\* the call w has written its last node
Finished(w) == walk[w].stack = <<>>
\* one caller only
Alone == DOMAIN walk = {1}
\* the tags the walk of q writes when every recursive node met again inside
\* its own body is a reference; open is the set of the nodes being described
RECURSIVE Described(_, _)
Described(q, open) ==
  IF q.t = "recursive"
  THEN IF q.x \in open THEN <<"recurse">>
       ELSE <<"recursion">> \o Described(Defined(q.x), open \cup {q.x})
  ELSE <<q.t>> \o Concat([i \in 1..Len(q.cs) |-> Described(q.cs[i], open)])
Tags(out) == [i \in 1..Len(out) |-> out[i].tag]
\* the times recursive node x is on the walk path of call w
Depth(w, x) == Cardinality({i \in 1..Len(walk[w].stack) : walk[w].stack[i] = Leave(x)})

(* C16: describe on a bound recursive validator terminates, whatever       *)
(* identifier the generator returns, 0 included: a call never goes into a  *)
(* recursive node that is already on its walk path, and it writes no more  *)
(* nodes than the tree describes.                                          *)
C16_DescribeTerminates ==
  (pc = "describe" /\ Alone) =>
     /\ \A x \in RecursiveNodes : Depth(1, x) <= 1
     /\ Len(walk[1].out) <= Len(Described(p, {}))

(* C17: in the output of one describe call every recursive node has one    *)
(* recursion node, and every other occurrence of it, inside its body or as *)
(* a sibling elsewhere in the tree, is a recurse node with the identifier  *)
(* of that recursion node.                                                 *)
C17_DefinedOnce ==
  (pc = "describe" /\ Alone /\ Finished(1)) =>
     LET out == walk[1].out
     IN \A x \in RecursiveNodes :
          LET defs == {i \in 1..Len(out) : out[i].tag = "recursion" /\ out[i].x = x}
              refs == {i \in 1..Len(out) : out[i].tag = "recurse" /\ out[i].x = x}
          IN (defs \cup refs # {}) =>
                /\ Cardinality(defs) = 1
                /\ \A i \in defs, j \in refs : out[j].id = out[i].id

\* a call that is misuse: no child, or max < min
Misuse(c) == \/ c.f \in Logicals /\ Len(c.cs) = 0
             \/ c.f \in Ranges /\ c.y < c.x

(* C18: And and Or called with no child, and LengthBetween, NumberBetween  *)
(* and WholeNumberBetween called with max < min, abort and return no       *)
(* validator; no constructed And or Or has an empty child list and no      *)
(* constructed range validator has min > max.                              *)
C18_ConstructionFailsFast ==
  (call # NoCall /\ pc # "new") =>
     /\ Misuse(call) <=> pc = "aborted"
     /\ pc = "aborted" <=> p = Aborted
     /\ p.t \in {"and", "or"} => Len(p.cs) >= 1
     /\ p.t \in {"lengthBetween", "numberBetween", "wholeNumberBetween"} => p.x <= p.y

\* WholeNumberBetween called with max < min has aborted
C18_Witness ==
  /\ pc = "aborted" /\ p = Aborted
  /\ call.f = "WholeNumberBetween" /\ call.y < call.x

\* what call w returns when no other call runs: the same validator, value,
\* root path and enumeration order
AloneResult(w) == Call(p, procs[w].u, root, procs[w].o)

(* C19: Validate is safe for concurrent use: in every interleaving of two  *)
(* calls on the same validator, also when both are given the same root     *)
(* path slice, each call returns what it returns when it runs alone.       *)
C19_ConcurrentValidate ==
  pc = "concurrent" =>
     \A w \in DOMAIN procs :
        procs[w].st = "returned" => procs[w].ret = AloneResult(w)

\* every identifier drawn so far, by any call, is not 0
NonZeroIds ==
  \A w \in DOMAIN walk : \A i \in 1..Len(walk[w].out) :
     walk[w].out[i].tag = "recursion" => walk[w].out[i].id # 0
\* call w has met a recursive node that carried the marker of another call
ObservedOther(w) == walk[w].foreign

(* C20: describe calls that share a recursive validator are not safe to    *)
(* run concurrently: a finished call gives a result other than the one it  *)
(* gives alone exactly when it has met the marker another call left on a   *)
(* node (identifiers not 0), and there is an interleaving where this       *)
(* happens.                                                                *)
C20_DescribeNotConcurrent ==
  (pc = "describe" /\ NonZeroIds) =>
     \A w \in DOMAIN walk :
        Finished(w) => (ObservedOther(w) <=> Tags(walk[w].out) # Described(p, {}))

\* a finished call that met the other call's marker on the root node: its
\* whole result is a reference to a definition it never wrote
C20_Witness ==
  /\ pc = "describe" /\ NonZeroIds /\ p = Recursion(ListOfLists)
  /\ \E w \in DOMAIN walk :
       /\ Finished(w) /\ ObservedOther(w)
       /\ Tags(walk[w].out) = <<"recurse">>
       /\ Described(p, {}) # <<"recurse">>

\* the root path a Case hands to the validator of discriminator c: the root
\* path followed by c, with the capacity append leaves
CaseRoot(c) ==
  LET a == GoAppend(RootHeap(root), RootSlice(root), c)
  IN [segs |-> Append(root.segs, c), spare |-> Cap(a.H, a.f) - a.f.n]
AtRoot(label, context) ==
  [Label |-> label, Field |-> root.segs, Context |-> context]

(* C21: Case(d) with path P returns one value_must_be_object at P for a    *)
(* value that is not a mapping, one object_must_have_exactly_one_key at P  *)
(* for a mapping of no key or of several, one case_not_defined at P with   *)
(* the discriminator as context when the sole key is not in d, and         *)
(* otherwise the result of d[key] on the key's value at path P + key.      *)
C21_Case ==
  (Done /\ p.t = "case") =>
     IF ~IsObject(v)
          THEN res = [ok |-> TRUE, es |-> <<AtRoot("value_must_be_object", CNil)>>]
     ELSE IF Len(v.ks) # 1
          THEN res = [ok |-> TRUE, es |-> <<AtRoot("object_must_have_exactly_one_key", CNil)>>]
     ELSE IF v.ks[1] \notin Range(p.ks)
          THEN res = [ok |-> TRUE, es |-> <<AtRoot("case_not_defined", CString(v.ks[1]))>>]
     ELSE res = Call(Child(p, v.ks[1]), v.e[1], CaseRoot(v.ks[1]), run)

\* a discriminator of d whose value fails d[key]: the violation is at P + key + index
C21_Witness ==
  /\ Done /\ p.t = "case" /\ IsObject(v) /\ Len(v.ks) = 1 /\ v.ks[1] \in Range(p.ks)
  /\ res.ok /\ Len(res.es) = 1
  /\ res.es[1].Field = root.segs \o <<v.ks[1], "0">>

\* the positions of the value that the validator of the same position rejects
FailingPositions ==
  {i \in 1..Len(p.cs) : JvalValidate(p.cs[i], v.e[i], Dot(root.segs, Itoa(i - 1))).es # <<>>}
Lowest(S) == CHOOSE i \in S : \A j \in S : i <= j
\* the positions of the Tuple p itself that its loop evaluated
EvaluatedPositions ==
  {res.ran[j].pos : j \in {j \in 1..Len(res.ran) :
                             Len(res.ran[j].f) = Len(root.segs) + 2}}

(* C22: Tuple(v1..vn) accepts exactly the sequences of n elements whose    *)
(* element i is accepted by vi; on a sequence of n elements with failing   *)
(* positions it returns the violations of the lowest failing position      *)
(* only, at path parent.i, and evaluates no later position; on a value     *)
(* that is not a sequence of n elements it evaluates no vi.                *)
C22_Tuple ==
  (pc = "done" /\ p.t = "tuple") =>
     IF IsArray(v) /\ Len(v.e) = Len(p.cs)
     THEN /\ res.es = <<>> <=> FailingPositions = {}
          /\ FailingPositions # {} =>
               LET i == Lowest(FailingPositions)
               IN /\ res.es = JvalValidate(p.cs[i], v.e[i], Dot(root.segs, Itoa(i - 1))).es
                  /\ \A j \in 1..Len(res.es) :
                        SubSeq(res.es[j].Field, 1, Len(root.segs) + 2)
                          = Dot(root.segs, Itoa(i - 1))
                  /\ EvaluatedPositions = 1..i
          /\ FailingPositions = {} => EvaluatedPositions = 1..Len(p.cs)
     ELSE /\ res.es # <<>>
          /\ res.ran = <<>>

\* position 0 is accepted, positions 1 and 2 both fail, and only the
\* violation of position 1 is returned
C22_Witness ==
  /\ pc = "done" /\ p.t = "tuple" /\ IsArray(v) /\ Len(v.e) = Len(p.cs)
  /\ FailingPositions = {2, 3}
  /\ Len(res.es) = 1
  /\ res.es[1].Field = Dot(root.segs, "1")

\* the labels of the violations of the result, those inside aggregates included
RECURSIVE LabelsOf(_)
LabelsOf(es) ==
  UNION {{es[i].Label} \cup LabelsOf(es[i].Context.es) : i \in 1..Len(es)}
RangeLabels == {"value_must_have_value_between", "value_must_be_whole_number",
                "value_must_have_length", "value_must_have_length_between"}

(* C23: the range validators check the type first: on a value that is not  *)
(* a number NumberBetween and WholeNumber return value_must_be_number and  *)
(* nothing else; on a value that is neither a string nor a sequence        *)
(* LengthBetween returns the type violations of its Or and no length       *)
(* violation.                                                              *)
C23_TypeFirst ==
  Done =>
     /\ (p.t \in {"numberBetween", "wholeNumber"} /\ ~IsNumber(v)) =>
           /\ res.ok
           /\ LabelsOf(res.es) = {"value_must_be_number"}
     /\ (p.t = "lengthBetween" /\ ~IsString(v) /\ ~IsArray(v)) =>
           /\ res.ok
           /\ LabelsOf(res.es) \cap RangeLabels = {}

\* the depth of a value: 0 for an atom, one more than its deepest element
RECURSIVE ValueDepth(_)
ValueDepth(u) ==
  IF Len(u.e) = 0 THEN 0
  ELSE 1 + Max({ValueDepth(u.e[i]) : i \in 1..Len(u.e)})
\* the validator nodes of a body, the handle included
RECURSIVE Size(_)
Size(q) == 1 + Sum([i \in 1..Len(q.cs) |-> Size(q.cs[i])])
\* the calls in progress when every node of the body is entered once for each
\* level of the value
NestingBound == (1 + Size(Defined(p.x))) * (1 + ValueDepth(v))

(* C24: Validate on a bound recursive validator terminates for every       *)
(* finite value and every graph Recursion can build, those that reach the  *)
(* handle again without descending into the value included: the number of  *)
(* nested Validate calls is bounded by the depth of the value.             *)
C24_ValidateTerminates ==
  pc \in {"nested", "returned"} => Len(stack) <= NestingBound

Traversed == pc = "traversed"
\* the sub-values of an accepted value with the leaf validators that accept
\* them: every child of an And, the children of an Or that accept
RECURSIVE Governing(_, _)
Governing(q, u) ==
  CASE q.t = "and" -> UNION {Governing(q.cs[i], u) : i \in 1..Len(q.cs)}
    [] q.t = "or" -> UNION {Governing(q.cs[i], u) : i \in {i \in 1..Len(q.cs) : Accepts(q.cs[i], u)}}
    [] q.t = "optional" -> IF IsNull(u) THEN {} ELSE Governing(q.cs[1], u)
    [] q.t = "recursive" -> Governing(Defined(q.x), u)
    [] q.t \in {"array", "map"} -> UNION {Governing(q.cs[1], u.e[i]) : i \in 1..Len(u.e)}
    [] q.t \in {"object", "case"} ->
         UNION {Governing(Child(q, u.ks[i]), u.e[i]) : i \in 1..Len(u.ks)}
    [] OTHER -> {[u |-> u, q |-> q]}

(* C25: Traverse calls the visitor at every node of the descent: for an    *)
(* accepted value every leaf sub-value is passed to the visitor with the   *)
(* leaf validator that governs it, And and Or pass the value to every      *)
(* child, and the sub-values below a recursive node met again deeper in    *)
(* the value are visited as well.                                          *)
C25_TraverseVisitsAll ==
  (Traversed /\ Succeeded) =>
     /\ res2.ok
     /\ Governing(p, v) \subseteq Range(res2.vis)

(* C29: Traverse never aborts on an accepted value: when Validate returns  *)
(* no violation, Traverse runs to its end; an Optional does not go into    *)
(* the validator it wraps with a null value, and an Object calls Traverse  *)
(* on no missing validator.                                                *)
C29_TraverseNeverAborts ==
  (Traversed /\ Succeeded) => res2.ok

(* C26: when an Or fails, the failure reasons of every alternative are     *)
(* kept: every violation a child returned (the members of a child's or     *)
(* aggregate, and the and aggregates of different children, all at the     *)
(* empty path) is in the result of the Or with its reason, path and        *)
(* content; deduplication discards no alternative's diagnostics for those  *)
(* of another.                                                             *)
C26_OrKeepsAll ==
  (Done /\ p.t = "or" /\ AllKidsRan /\ Failing = 1..Len(p.cs)) =>
     /\ res.ok
     /\ \A i \in 1..Len(Kids) :
          Range(Splice(KidErrors(i), "or")) \subseteq Shown("or")

\* no aggregate of the list, at any depth, has a member with its own tag
RECURSIVE Flattened(_)
Flattened(es) ==
  \A i \in 1..Len(es) :
     /\ es[i].Label \in {"and", "or"} =>
           \A j \in 1..Len(es[i].Context.es) : es[i].Context.es[j].Label # es[i].Label
     /\ Flattened(es[i].Context.es)

(* C27: aggregates never nest in themselves: in every result of Validate   *)
(* the context list of a violation tagged and holds no violation tagged    *)
(* and, and that of one tagged or holds none tagged or; the members of an  *)
(* aggregate returned by a child And (Or) are in the parent's result.      *)
C27_AggregatesFlat ==
  (Done /\ res.ok) =>
     /\ Flattened(res.es)
     /\ (p.t \in {"and", "or"} /\ res.es # <<>> /\ AllKidsRan) =>
           \A i \in 1..Len(Kids) : \A j \in 1..Len(Kids[i].es) :
              KidErrors(i)[j].Label = p.t =>
                 Range(KidErrors(i)[j].Context.es) \subseteq Shown(p.t)

\* an And whose first child is an And that returned an aggregate: its
\* members are in the parent's aggregate, next to those of the second child
C27_Witness ==
  /\ Done /\ res.ok /\ p.t = "and" /\ p.cs[1].t = "and" /\ AllKidsRan
  /\ Len(Kids[1].es) = 1 /\ Kids[1].es[1].Label = "and"
  /\ Len(res.es) = 1 /\ res.es[1].Label = "and"
  /\ Len(res.es[1].Context.es) >= 3
  /\ \A j \in 1..Len(res.es[1].Context.es) : res.es[1].Context.es[j].Label # "and"

\* the length LengthBetween has compared with min and max, read off its result
ComparedAs(n) == res.ok /\ (res.es = <<>> <=> (p.x <= n /\ n <= p.y))

(* C28: LengthBetween measures a string by its number of code points, not  *)
(* of bytes, and a sequence by its number of elements: for a string with   *)
(* code points encoded on more than one byte, the length compared with min *)
(* and max is the count of code points.                                    *)
C28_CodePoints ==
  (Done /\ p.t = "lengthBetween") =>
     /\ IsString(v) => ComparedAs(Len(v.s))
     /\ IsArray(v) => ComparedAs(Len(v.e))

\* call w is not in progress: it has not begun, or it has written its last node
Idle(w) == Finished(w) \/ walk[w] = StartWalk(p)
Quiescent == \A w \in DOMAIN walk : Idle(w)
\* a call that begins on a recursive root while no call is in progress
\* writes the definition node
BeginsWithDefinition ==
  \A w \in DOMAIN walk :
     (/\ pc = "describe" /\ Quiescent /\ p.t = "recursive"
      /\ walk[w] = StartWalk(p) /\ walk'[w] # walk[w])
       => /\ Len(walk'[w].out) = 1
          /\ walk'[w].out[1].tag = "recursion"

====
